---- MODULE Spec2Model ----
(***************************************************************************)
(* zonaflash-backend: the nearby search and the hunt submission / reward   *)
(* ledger / wallet handlers of src/unnamed/part_001 over a PostgreSQL      *)
(* store.                                                                  *)
(*                                                                         *)
(* Every inbound request is served by its own worker (gin runs one         *)
(* goroutine per request); request number r is worker r.  All shared       *)
(* state is the store: the tables locations, transactions, wallets and     *)
(* offers, and the media bucket.  A handler is a sequence of store statements;     *)
(* one action is one statement together with the local code around it.     *)
(* Statements of a transaction write to the transaction's own row          *)
(* versions, which Commit installs in the tables atomically (READ          *)
(* COMMITTED: other requests never see them before).                       *)
(***************************************************************************)
EXTENDS Integers, Sequences, FiniteSets, TLC

\* ---------------------------------------------------------------- bounds
MaxRequests == 2

Requests == 1..MaxRequests

\* ------------------------------------------------------ program constants
Reward == 10
ExclusionRadius == 20
DefaultGoal == 500
DefaultRadius == 5000
Limit == 50

authorizedUIDs == {"wkq951i7vvhJbrZOQmUav6B28BZ2", "DtfBh0Tr41fyjUwtcbl9WCBpgOJ2"}

allowedCategories ==
    {"station_moto", "station_car", "mechanic", "parts", "tires", "oil",
     "wash", "tow", "food", "fuel_dollar"}

\* ------------------------------------------------------------ input sets
Hunter == "wkq951i7vvhJbrZOQmUav6B28BZ2"
Hunter2 == "DtfBh0Tr41fyjUwtcbl9WCBpgOJ2"
Guest == "guest"
UserIDs == {Hunter, Hunter2, Guest}

\* The users whose wallet is asked for, and the redemption requests.
WalletReads == {Hunter, Guest}
RedeemForms ==
    {[kind |-> "redeem", user_id |-> Hunter, vehicle_type |-> "moto"],
     [kind |-> "redeem", user_id |-> Hunter, vehicle_type |-> "car"],
     [kind |-> "redeem", user_id |-> Guest, vehicle_type |-> "moto"]}

Form(u, cat, vt, la, ln, sh, ph) ==
    [kind |-> "submit", user_id |-> u, category |-> cat, vehicle_type |-> vt,
     latitude |-> la, longitude |-> ln, is_shadow |-> sh, photo |-> ph]

\* The multipart forms the hunt endpoint is given: captures by the allow-listed
\* hunters at three places on a line (0 m, where a latitude that is missing or
\* no number lands, 20 m and 41 m), of two categories and both vehicle types,
\* with and without a photo; a form with a category outside the list; a form of
\* a stranger, its category outside the list too.
HuntForms ==
    {Form(Hunter, "food", "moto", "", "0", "", FALSE),
     Form(Hunter2, "food", "car", "20", "0", "true", FALSE),
     Form(Hunter, "food", "moto", "41", "0", "", TRUE),
     Form(Hunter, "station_moto", "car", "x", "0", "true", FALSE),
     Form(Hunter, "casino", "moto", "20", "0", "", TRUE),
     Form(Guest, "casino", "car", "", "0", "true", TRUE)}

Twenty(s) == 20

\* strconv.ParseFloat with the error dropped: 0 for whatever is no number.
\* Coordinates are in units of one meter along the axes through the origin.
ParseFloat(s) ==
    CASE s = "0" -> 0
      [] s = "20" -> 20
      [] s = "41" -> 41
      [] s = "5000" -> 5000
      [] OTHER -> 0

\* ----------------------------------------------------------------- store
VARIABLES locations, transactions, wallets, bucket, offers

\* ---------------------------------------------------------- the requests
VARIABLES pc, req, photoUrl, tx, wallet, resp

\* ------------------------------------------------------- history (ghost)
\* wallets0: the wallets at the start; saved: the users whose wallet row a
\* redemption has rewritten; overlapped: a submission has arrived while another
\* was in flight; guardFailed: a duplicate query has failed; committed[p]: the
\* COMMIT of request p succeeded (kept until p answers).
VARIABLES wallets0, saved, overlapped, guardFailed, committed

store == <<locations, transactions, wallets, bucket, offers>>
locals == <<photoUrl, tx, wallet, committed>>
ghost == <<wallets0, saved, overlapped, guardFailed>>
vars == <<locations, transactions, wallets, bucket, offers, pc, req, photoUrl, tx,
          wallet, resp, wallets0, saved, overlapped, guardFailed, committed>>

\* The zero value of the Go struct Wallet.
ZeroWallet ==
    [user_id |-> "", balance_moto |-> 0, balance_car |-> 0, lifetime_points |-> 0,
     goal |-> 0, status |-> "", level_name |-> ""]

\* The row getWallet creates.
NewWallet(u) ==
    [user_id |-> u, balance_moto |-> 0, balance_car |-> 0, lifetime_points |-> 0,
     goal |-> DefaultGoal, status |-> "active", level_name |-> "Novato"]

\* A status column that holds no value.
Null == "<NULL>"

NoReq == [kind |-> "none"]
NoTx == [open |-> FALSE, loc |-> <<>>, trans |-> <<>>, wallet |-> <<>>]
\* resp is the response the step just taken has sent (NoResp when it sent none);
\* `to` is the request it answers and `form` what that request had asked; rows
\* is the list a search answers with and null says that its body is JSON null.
NoResp ==
    [to |-> 0, form |-> NoReq, op |-> "", code |-> 0, error |-> "", points |-> 0,
     wallet |-> ZeroWallet, rows |-> <<>>, null |-> FALSE]

\* c.JSON(code, gin.H{"error": msg})
ErrorJSON(op, code, msg) ==
    [NoResp EXCEPT !.op = op, !.code = code, !.error = msg]

\* ------------------------------------------------------------- geography
Point(lng, lat) == <<lng, lat>>

Sq(x) == x * x

\* ST_DWithin(geom, point, r): false (NULL) for a row without geometry.
StrictlyWithin(geom, pt, r) ==
    geom # <<>> /\ Sq(geom[1] - pt[1]) + Sq(geom[2] - pt[2]) < Sq(r)

ST_DWithin(geom, pt, r) ==
    /\ geom # <<>>
    /\ Sq(geom[1] - pt[1]) + Sq(geom[2] - pt[2]) <= Sq(r)

Rows(table) == {table[i] : i \in 1..Len(table)}

\* Requests arrive in the order of their numbers.
Arrives(p) == pc[p] = "new" /\ (IF p = 1 THEN TRUE ELSE pc[p - 1] # "new")

InFlight(p) == pc[p] \notin {"new", "done"}

\* The handler of request p, which had asked `form`, returns: the response goes
\* out and its locals are gone.
ReturnFor(p, form, response) ==
    /\ pc' = [pc EXCEPT ![p] = "done"]
    /\ resp' = [response EXCEPT !.to = p, !.form = form]
    /\ req' = [req EXCEPT ![p] = NoReq]
    /\ photoUrl' = [photoUrl EXCEPT ![p] = <<>>]
    /\ tx' = [tx EXCEPT ![p] = NoTx]
    /\ wallet' = [wallet EXCEPT ![p] = ZeroWallet]
    /\ committed' = [committed EXCEPT ![p] = FALSE]

Return(p, response) == ReturnFor(p, req[p], response)

Goto(p, label) ==
    /\ pc' = [pc EXCEPT ![p] = label]
    /\ resp' = NoResp

\* The table with the row of key u written (inserted or replaced).
Put(table, u, row) ==
    [v \in DOMAIN table \cup {u} |-> IF v = u THEN row ELSE table[v]]

\* A transaction that has written the wallets row of u and is still open holds
\* the row (or, for a row it inserted, the key): whoever writes the same row or
\* key waits for it to end.
RowHolders(u) == {q \in Requests : pc[q] = "commit" /\ req[q].user_id = u}

NoRowLock(u, p) == TRUE

RowFree(u, p) == RowHolders(u) \ {p} = {}

\* ------------------------------------------------------ submitHuntHandler

\* Authorization and category validation, first failure first.
AdmitAll(userID, category) == "admitted"

CategoryFirst(userID, category) ==
    IF category \notin allowedCategories THEN "invalid_category"
    ELSE IF userID \notin authorizedUIDs THEN "forbidden"
    ELSE "admitted"

Admission(userID, category) ==
    IF userID \notin authorizedUIDs THEN "forbidden"
    ELSE IF category \notin allowedCategories THEN "invalid_category"
    ELSE "admitted"

SubmitHunt(p) ==
    /\ Arrives(p)
    /\ \E r \in HuntForms :
          LET a == Admission(r.user_id, r.category)
          IN  /\ overlapped' = (overlapped \/ \E q \in Requests :
                                   InFlight(q) /\ req[q].kind = "submit")
              /\ IF a = "forbidden"
                 THEN ReturnFor(p, r, ErrorJSON("submit", 403, "Acceso denegado"))
                 ELSE IF a = "invalid_category"
                 THEN ReturnFor(p, r, ErrorJSON("submit", 400, "Categoria no permitida"))
                 ELSE /\ Goto(p, "dup")
                      /\ req' = [req EXCEPT ![p] = r]
                      /\ UNCHANGED locals
    /\ UNCHANGED <<store, wallets0, saved, guardFailed>>

\* SELECT count(*) FROM locations WHERE category = ? AND ST_DWithin(geom, point, 20)
AnyCategoryCount(category, lng, lat) ==
    Cardinality({i \in 1..Len(locations) :
        ST_DWithin(locations[i].geom, Point(lng, lat), ExclusionRadius)})

DupCount(category, lng, lat) ==
    Cardinality({i \in 1..Len(locations) :
        /\ locations[i].category = category
        /\ ST_DWithin(locations[i].geom, Point(lng, lat), ExclusionRadius)})

\* The query may fail; Scan's error is dropped and count keeps its zero value.
Scanned(queryOk, n) == IF queryOk THEN n ELSE 0

DupCheck(p) ==
    /\ pc[p] = "dup"
    /\ \E queryOk \in BOOLEAN :
          LET count == Scanned(queryOk,
                               DupCount(req[p].category, ParseFloat(req[p].longitude),
                                        ParseFloat(req[p].latitude)))
          IN  /\ guardFailed' = (guardFailed \/ ~queryOk)
              /\ IF count > 0
                 THEN Return(p, ErrorJSON("submit", 409, "Este punto ya ha sido capturado"))
                 ELSE Goto(p, "media") /\ UNCHANGED <<req, locals>>
    /\ UNCHANGED <<store, wallets0, saved, overlapped>>

\* The stages of the upload, in the order the code goes through them.
UploadSetup == <<"read_key", "credentials", "transport", "new_client", "open">>

\* What an upload can meet: the first setup stage that fails (0: none), whether
\* io.Copy succeeds and whether wc.Close() succeeds.
UploadOutcomes ==
    [failed : 0..Len(UploadSetup), copy : BOOLEAN, close : BOOLEAN]

\* fmt.Sprintf("zona_flash/captures/%s/%d.jpg", userID, time.Now().Unix()), all
\* the requests falling in one second.
ObjectName(userID) == <<"zona_flash/captures", userID, "0.jpg">>

URL(objectName) == <<"https://storage.googleapis.com", "chatcerex-v4-post-images", objectName>>

\* The writer is reached only when every setup stage passed; the object is in the
\* bucket, and photoUrl is set, once Close has succeeded.
Closed(hasPhoto, o) == hasPhoto /\ o.failed = 0 /\ o.close

PhotoUrlOf(userID, hasPhoto, o) ==
    IF Closed(hasPhoto, o) THEN URL(ObjectName(userID)) ELSE <<>>

\* The bucket after the upload: the object holds the whole photo when io.Copy
\* succeeded and what had been copied before the error when it did not.
Uploaded(objects, userID, hasPhoto, o) ==
    IF Closed(hasPhoto, o)
    THEN Put(objects, ObjectName(userID), IF o.copy THEN "whole" ELSE "truncated")
    ELSE objects

Media(p) ==
    /\ pc[p] = "media"
    /\ \E o \in UploadOutcomes :
          /\ photoUrl' = [photoUrl EXCEPT ![p] = PhotoUrlOf(req[p].user_id, req[p].photo, o)]
          /\ bucket' = Uploaded(bucket, req[p].user_id, req[p].photo, o)
    /\ Goto(p, "insert")
    /\ UNCHANGED <<locations, transactions, wallets, offers, req, tx, wallet, committed, ghost>>

\* tx.Rollback(): the transaction's row versions are dropped.
Rollback(p, msg) == Return(p, ErrorJSON("submit", 500, msg))

\* The Location the handler builds (a row's place in the table stands for its id).
NewLocation(p) ==
    [user_id |-> req[p].user_id, vehicle_type |-> req[p].vehicle_type,
     category |-> req[p].category, photo_url |-> photoUrl[p],
     latitude |-> ParseFloat(req[p].latitude), longitude |-> ParseFloat(req[p].longitude),
     status |-> "pending", is_shadow |-> (req[p].is_shadow = "true"), geom |-> <<>>]

\* db.Begin() and tx.Create(&loc)
InsertLocation(p) ==
    /\ pc[p] = "insert"
    /\ \E ok \in BOOLEAN :
          IF ok
          THEN /\ tx' = [tx EXCEPT ![p] = [NoTx EXCEPT !.open = TRUE, !.loc = <<NewLocation(p)>>]]
               /\ Goto(p, "geom")
               /\ UNCHANGED <<req, photoUrl, wallet, committed>>
          ELSE Rollback(p, "Error creating location")
    /\ UNCHANGED <<store, ghost>>

\* UPDATE locations SET geom = ST_SetSRID(ST_MakePoint(lng, lat), 4326) WHERE id = ?
NoGeom(row, lng, lat) == row

SetGeom(row, lng, lat) == [row EXCEPT !.geom = Point(lng, lat)]

UpdateGeom(p) ==
    /\ pc[p] = "geom"
    /\ \E ok \in BOOLEAN :
          IF ok
          THEN /\ tx' = [tx EXCEPT ![p].loc =
                            <<SetGeom(tx[p].loc[1], ParseFloat(req[p].longitude),
                                      ParseFloat(req[p].latitude))>>]
               /\ Goto(p, "ledger")
               /\ UNCHANGED <<req, photoUrl, wallet, committed>>
          ELSE Rollback(p, "Error updating geography")
    /\ UNCHANGED <<store, ghost>>

NewTransaction(p) ==
    [user_id |-> req[p].user_id, vehicle_type |-> req[p].vehicle_type, points |-> Reward]

\* tx.Create(&trans)
InsertTransaction(p) ==
    /\ pc[p] = "ledger"
    /\ \E ok \in BOOLEAN :
          IF ok
          THEN /\ tx' = [tx EXCEPT ![p].trans = <<NewTransaction(p)>>]
               /\ Goto(p, "upsert")
               /\ UNCHANGED <<req, photoUrl, wallet, committed>>
          ELSE Rollback(p, "Error creating transaction")
    /\ UNCHANGED <<store, ghost>>

AlwaysMoto(vehicleType) == "balance_moto"

BalanceCol(vehicleType) == IF vehicleType = "car" THEN "balance_car" ELSE "balance_moto"

\* INSERT INTO wallets ... VALUES (?, ?, ?, 10, 500, 'active', 'Novato')
\* ON CONFLICT (user_id) DO UPDATE SET <col> = wallets.<col> + 10,
\*                                     lifetime_points = wallets.lifetime_points + 10
Upserted(table, u, vehicleType) ==
    IF u \in DOMAIN table
    THEN [table[u] EXCEPT ![BalanceCol(vehicleType)] = @ + Reward,
                          !.lifetime_points = @ + Reward]
    ELSE [user_id |-> u,
          balance_moto |-> IF vehicleType = "car" THEN 0 ELSE Reward,
          balance_car |-> IF vehicleType = "car" THEN Reward ELSE 0,
          lifetime_points |-> Reward, goal |-> DefaultGoal, status |-> "active",
          level_name |-> "Novato"]

\* The statement waits while another open transaction holds the row.
UpsertWallet(p) ==
    /\ pc[p] = "upsert"
    /\ \E ok \in BOOLEAN :
          IF ok
          THEN /\ RowFree(req[p].user_id, p)
               /\ tx' = [tx EXCEPT ![p].wallet =
                            <<Upserted(wallets, req[p].user_id, req[p].vehicle_type)>>]
               /\ Goto(p, "commit")
               /\ UNCHANGED <<req, photoUrl, wallet, committed>>
          ELSE Rollback(p, "Error updating wallet")
    /\ UNCHANGED <<store, ghost>>

\* What a successful COMMIT installs in each table.
CommittedLocations(p) == locations \o tx[p].loc
LedgerLeftOut(p) == transactions

CommittedTransactions(p) == transactions \o tx[p].trans
CommittedWallets(p) == Put(wallets, req[p].user_id, tx[p].wallet[1])

\* tx.Commit(): its error is logged and the handler goes on either way.
Commit(p) ==
    /\ pc[p] = "commit"
    /\ \E ok \in BOOLEAN :
          /\ IF ok
             THEN /\ locations' = CommittedLocations(p)
                  /\ transactions' = CommittedTransactions(p)
                  /\ wallets' = CommittedWallets(p)
             ELSE UNCHANGED <<locations, transactions, wallets>>
          /\ committed' = [committed EXCEPT ![p] = ok]
    /\ tx' = [tx EXCEPT ![p] = NoTx]
    /\ photoUrl' = [photoUrl EXCEPT ![p] = <<>>]
    /\ req' = [req EXCEPT ![p] = [kind |-> "submit", user_id |-> req[p].user_id,
                                  vehicle_type |-> req[p].vehicle_type]]
    /\ Goto(p, "reread")
    /\ UNCHANGED <<bucket, offers, wallet, ghost>>

\* db.First(&dest, "user_id = ?", u): the row, or the untouched destination
\* and an error when the row is missing or the query fails.
First(queryOk, u, dest) == IF queryOk /\ u \in DOMAIN wallets THEN wallets[u] ELSE dest

Found(queryOk, u) == queryOk /\ u \in DOMAIN wallets

\* c.JSON(200, gin.H{"message": ..., "points": 10, "wallet": updatedWallet})
HuntSubmitted(w) ==
    [NoResp EXCEPT !.op = "submit", !.code = 200, !.points = Reward, !.wallet = w]

Respond(p) ==
    /\ pc[p] = "reread"
    /\ \E queryOk \in BOOLEAN :
          Return(p, HuntSubmitted(First(queryOk, req[p].user_id, ZeroWallet)))
    /\ UNCHANGED <<store, ghost>>

\* ---------------------------------------------------------------- getWallet

WalletJSON(w) == [NoResp EXCEPT !.op = "wallet", !.code = 200, !.wallet = w]

\* db.First; when it gives an error the handler goes on to create the row.
GetWallet(p) ==
    /\ Arrives(p)
    /\ \E u \in WalletReads, queryOk \in BOOLEAN :
          IF Found(queryOk, u)
          THEN ReturnFor(p, [kind |-> "wallet", user_id |-> u],
                         WalletJSON(First(queryOk, u, ZeroWallet)))
          ELSE /\ Goto(p, "create")
               /\ req' = [req EXCEPT ![p] = [kind |-> "wallet", user_id |-> u]]
               /\ wallet' = [wallet EXCEPT ![p] = NewWallet(u)]
               /\ UNCHANGED <<photoUrl, tx, committed>>
    /\ UNCHANGED <<store, ghost>>

\* INSERT INTO wallets: a row with the same key makes it fail (after waiting for
\* the transaction that is inserting it, if any).
Created(table, row) ==
    IF row.user_id \in DOMAIN table THEN table ELSE Put(table, row.user_id, row)

\* db.Create(&wallet), its error dropped, then the response.
CreateWallet(p) ==
    /\ pc[p] = "create"
    /\ \E ok \in BOOLEAN :
          IF ok
          THEN /\ RowFree(req[p].user_id, p)
               /\ wallets' = Created(wallets, wallet[p])
          ELSE wallets' = wallets
    /\ Return(p, WalletJSON(wallet[p]))
    /\ UNCHANGED <<locations, transactions, bucket, offers, ghost>>

\* ------------------------------------------------------------ requestRedeem

MotoBalance(w, vehicleType) == w.balance_moto

CurrentBalance(w, vehicleType) ==
    IF vehicleType = "car" THEN w.balance_car ELSE w.balance_moto

\* c.JSON(200, gin.H{"message": "Solicitud recibida", "new_status": "pending"})
RedeemJSON == [NoResp EXCEPT !.op = "redeem", !.code = 200]

RequestRedeem(p) ==
    /\ Arrives(p)
    /\ \E r \in RedeemForms, queryOk \in BOOLEAN :
          IF ~Found(queryOk, r.user_id)
          THEN ReturnFor(p, r, ErrorJSON("redeem", 404, "Wallet no encontrada"))
          ELSE LET w == First(queryOk, r.user_id, ZeroWallet)
               IN  IF CurrentBalance(w, r.vehicle_type) < w.goal
                   THEN ReturnFor(p, r, ErrorJSON("redeem", 400, "Saldo insuficiente"))
                   ELSE /\ Goto(p, "save")
                        /\ req' = [req EXCEPT ![p] = r]
                        /\ wallet' = [wallet EXCEPT ![p] = [w EXCEPT !.status = "pending"]]
                        /\ UNCHANGED <<photoUrl, tx, committed>>
    /\ UNCHANGED <<store, ghost>>

\* db.Save(&wallet): UPDATE wallets SET <every column> = <the struct's field>
\* WHERE user_id = ?
Saved(table, w) == Put(table, w.user_id, w)

SaveWallet(p) ==
    /\ pc[p] = "save"
    /\ \E ok \in BOOLEAN :
          IF ok
          THEN /\ RowFree(req[p].user_id, p)
               /\ wallets' = Saved(wallets, wallet[p])
               /\ saved' = saved \cup {req[p].user_id}
          ELSE UNCHANGED <<wallets, saved>>
    /\ Return(p, RedeemJSON)
    /\ UNCHANGED <<locations, transactions, bucket, offers, wallets0, overlapped, guardFailed>>

\* ---------------------------------------------------------- getNearbyOffers

\* The query strings of the searches: latitude, longitude and radius, each
\* possibly missing.
SearchQueries ==
    [kind : {"search"}, lat : {"", "0", "20", "41"}, lng : {"", "0"},
     radius : {"", "0", "20", "5000"}]

OnlyBothMissing(latStr, lngStr) == latStr = "" /\ lngStr = ""

MissingCoordinates(latStr, lngStr) == latStr = "" \/ lngStr = ""

\* if radius == 0 { radius = 5000 }
Radius(radius) == IF radius = 0 THEN DefaultRadius ELSE radius

Abs(x) == IF x < 0 THEN -x ELSE x

\* ST_Distance(geom, point), in meters, for places on one axis through the point.
ST_Distance(geom, pt) ==
    IF geom[1] = pt[1] THEN Abs(geom[2] - pt[2]) ELSE Abs(geom[1] - pt[1])

StatusFirst(category, status) ==
    IF status \in {Null, ""} THEN "approved"
    ELSE IF category \in {"station_moto", "station_car"} THEN "shadow"
    ELSE status

\* CASE WHEN category IN ('station_moto', 'station_car') THEN 'shadow'
\*      WHEN status IS NULL OR status = '' THEN 'approved' ELSE status END
DisplayStatus(category, status) ==
    IF category \in {"station_moto", "station_car"} THEN "shadow"
    ELSE IF status \in {Null, ""} THEN "approved"
    ELSE status

\* The row the first SELECT gives for offer i; <<table, place in it>> is its id.
OfferRow(i, pt) ==
    [id |-> <<"offers", i>>, category |-> offers[i].category,
     status |-> offers[i].status,
     latitude |-> offers[i].location[2], longitude |-> offers[i].location[1],
     distance_meters |-> ST_Distance(offers[i].location, pt)]

\* The row the second SELECT gives for captured point i.
LocationRow(i, pt) ==
    [id |-> <<"locations", i>>, category |-> locations[i].category,
     status |-> DisplayStatus(locations[i].category, locations[i].status),
     latitude |-> locations[i].latitude, longitude |-> locations[i].longitude,
     distance_meters |-> ST_Distance(locations[i].geom, pt)]

WholeTables(pt, radius) ==
    {OfferRow(i, pt) : i \in 1..Len(offers)}
    \cup {LocationRow(i, pt) : i \in 1..Len(locations)}

\* (SELECT ... FROM offers WHERE ST_DWithin(location, point, radius))
\* UNION ALL (SELECT ... FROM locations WHERE ST_DWithin(geom, point, radius))
UnionAll(pt, radius) ==
    {OfferRow(i, pt) : i \in {j \in 1..Len(offers) : ST_DWithin(offers[j].location, pt, radius)}}
    \cup
    {LocationRow(i, pt) :
        i \in {j \in 1..Len(locations) : ST_DWithin(locations[j].geom, pt, radius)}}

\* ORDER BY distance_meters ASC leaves the order of rows at one distance to the
\* store: by table either way and, within a table, by place either way.
TieBreaks == [offersFirst : BOOLEAN, ascending : BOOLEAN]

Before(a, b, tie) ==
    \/ a.distance_meters < b.distance_meters
    \/ /\ a.distance_meters = b.distance_meters
       /\ a.id # b.id
       /\ IF a.id[1] # b.id[1]
          THEN (a.id[1] = "offers") = tie.offersFirst
          ELSE (a.id[2] < b.id[2]) = tie.ascending

\* The row that no other row comes before.
First1(rows, tie) == CHOOSE a \in rows : \A b \in rows : ~Before(b, a, tie)

RECURSIVE OrderBy(_, _)
OrderBy(rows, tie) ==
    IF rows = {} THEN <<>>
    ELSE LET a == First1(rows, tie)
         IN  <<a>> \o OrderBy(rows \ {a}, tie)

Unlimited(rows, n) == rows

\* LIMIT n
LimitTo(rows, n) == SubSeq(rows, 1, IF Len(rows) < n THEN Len(rows) ELSE n)

\* Scan(&offers): a column is kept when it names a field of OfferResponse.
ScanRow(row) ==
    [id |-> row.id, category |-> row.category, status |-> row.status,
     latitude |-> row.latitude, longitude |-> row.longitude]

ScanRows(rows) == [i \in 1..Len(rows) |-> ScanRow(rows[i])]

\* The lists the query can give for the point and the radius.
Nearby(lng, lat, radius) ==
    {ScanRows(LimitTo(OrderBy(UnionAll(Point(lng, lat), radius), tie), Limit)) :
        tie \in TieBreaks}

\* c.JSON(200, offers): the slice Scan has filled, or the nil slice (JSON null)
\* the handler declared when the query failed, Scan's error being dropped.
OffersJSON(rows, isNil) ==
    [NoResp EXCEPT !.op = "search", !.code = 200, !.rows = rows, !.null = isNil]

NearbySearch(p) ==
    /\ Arrives(p)
    /\ \E q \in SearchQueries :
          IF MissingCoordinates(q.lat, q.lng)
          THEN ReturnFor(p, q, ErrorJSON("search", 400, "Faltan lat/lng"))
          ELSE \E queryOk \in BOOLEAN :
                  IF queryOk
                  THEN \E rows \in Nearby(ParseFloat(q.lng), ParseFloat(q.lat),
                                          Radius(ParseFloat(q.radius))) :
                          ReturnFor(p, q, OffersJSON(rows, FALSE))
                  ELSE ReturnFor(p, q, OffersJSON(<<>>, TRUE))
    /\ UNCHANGED <<store, ghost>>

\* --------------------------------------------------------------------- main

\* UPDATE locations SET status = 'approved' WHERE status IS NULL OR status = 'pending'
Migrated(row) ==
    IF row.status \in {Null, "pending"} THEN [row EXCEPT !.status = "approved"] ELSE row

\* UPDATE offers SET status = 'active' WHERE status IS NULL
MigratedOffer(row) ==
    IF row.status = Null THEN [row EXCEPT !.status = "active"] ELSE row

\* The process is started again: the requests in flight die with it (their
\* transactions are rolled back by the store) and main runs its data migration.
Restart ==
    /\ \E p \in Requests : pc[p] # "new"
    /\ locations' = [i \in 1..Len(locations) |-> Migrated(locations[i])]
    /\ offers' = [i \in 1..Len(offers) |-> MigratedOffer(offers[i])]
    /\ pc' = [p \in Requests |-> IF InFlight(p) THEN "done" ELSE pc[p]]
    /\ req' = [p \in Requests |-> IF InFlight(p) THEN NoReq ELSE req[p]]
    /\ photoUrl' = [p \in Requests |-> <<>>]
    /\ tx' = [p \in Requests |-> NoTx]
    /\ wallet' = [p \in Requests |-> ZeroWallet]
    /\ committed' = [p \in Requests |-> FALSE]
    /\ resp' = NoResp
    /\ UNCHANGED <<transactions, wallets, bucket, ghost>>

\* ---------------------------------------------------------- specification

EmptyTable == [u \in {} |-> ZeroWallet]

\* The wallets the store holds when the process starts: none, or the hunter's
\* after the rewarded moto captures of an earlier run, its balance at the goal.
InitialWallets ==
    {EmptyTable,
     Put(EmptyTable, Hunter, [NewWallet(Hunter) EXCEPT !.balance_moto = DefaultGoal,
                                                       !.lifetime_points = DefaultGoal])}

\* A row of offers; the program reads the table and never inserts into it.
Offer(category, status, lat) ==
    [category |-> category, status |-> status, location |-> Point(0, lat)]

InitialOffers == <<Offer("food", "active", 20)>>

Init ==
    /\ locations = <<>>
    /\ transactions = <<>>
    /\ wallets \in InitialWallets
    /\ bucket = [n \in {} |-> ""]
    /\ offers = InitialOffers
    /\ pc = [p \in Requests |-> "new"]
    /\ req = [p \in Requests |-> NoReq]
    /\ photoUrl = [p \in Requests |-> <<>>]
    /\ tx = [p \in Requests |-> NoTx]
    /\ wallet = [p \in Requests |-> ZeroWallet]
    /\ resp = NoResp
    /\ wallets0 = wallets
    /\ saved = {}
    /\ overlapped = FALSE
    /\ guardFailed = FALSE
    /\ committed = [p \in Requests |-> FALSE]

\* Between its arrival and its wallet upsert a submission touches nothing another
\* request can see (its form, the media bucket, its own transaction's rows; the
\* duplicate query is its one read): while a request is there, the others wait.
\* This only leaves out interleavings that differ in the order of unrelated steps.
Private == {"dup", "media", "insert", "geom", "ledger"}

Scheduled(p) == \A q \in Requests \ {p} : pc[q] \notin Private

Next ==
    \/ \E p \in Requests : Scheduled(p) /\ SubmitHunt(p)
    \/ \E p \in Requests : Scheduled(p) /\ DupCheck(p)
    \/ \E p \in Requests : Scheduled(p) /\ Media(p)
    \/ \E p \in Requests : Scheduled(p) /\ InsertLocation(p)
    \/ \E p \in Requests : Scheduled(p) /\ UpdateGeom(p)
    \/ \E p \in Requests : Scheduled(p) /\ InsertTransaction(p)
    \/ \E p \in Requests : Scheduled(p) /\ UpsertWallet(p)
    \/ \E p \in Requests : Scheduled(p) /\ Commit(p)
    \/ \E p \in Requests : Scheduled(p) /\ Respond(p)
    \/ \E p \in Requests : Scheduled(p) /\ GetWallet(p)
    \/ \E p \in Requests : Scheduled(p) /\ CreateWallet(p)
    \/ \E p \in Requests : Scheduled(p) /\ RequestRedeem(p)
    \/ \E p \in Requests : Scheduled(p) /\ SaveWallet(p)
    \/ Restart

Spec == Init /\ [][Next]_vars

\* ------------------------------------------------- the search on a given store

\* A captured point as a committed submission leaves it, with the status the
\* moderation (or an older writer) has given it since.
Captured(category, status, shadow, lat) ==
    [user_id |-> Hunter, vehicle_type |-> "moto", category |-> category,
     photo_url |-> <<>>, latitude |-> lat, longitude |-> 0, status |-> status,
     is_shadow |-> shadow, geom |-> Point(0, lat)]

\* A handful of rows: an offer and a captured point at the same place, rows at
\* the edge of the radii asked for and just beyond, every kind of stored status.
FewOffers ==
    <<Offer("food", "active", 0), Offer("food", "suspended", 20),
      Offer("tires", "flash", DefaultRadius), Offer("oil", "active", DefaultRadius + 21)>>

FewLocations ==
    <<Captured("station_moto", "rejected", TRUE, 0), Captured("food", Null, FALSE, 20),
      Captured("food", "", FALSE, 41), Captured("station_car", Null, TRUE, 61),
      Captured("wash", "approved", FALSE, 10), Captured("food", "pending", FALSE, 21),
      Captured("food", "rejected", TRUE, DefaultRadius + 1)>>

\* More rows around the query points than a search returns: offers at the odd
\* meters and captured points at the even meters of the first Limit + 10.
ManyOffers ==
    [i \in 1..((Limit + 10) \div 2) |-> Offer("food", "active", 2 * i - 1)]

ManyLocations ==
    [i \in 1..((Limit + 10) \div 2) |-> Captured("food", "approved", FALSE, 2 * i)]

SearchStores ==
    {[offers |-> <<>>, locations |-> <<>>],
     [offers |-> FewOffers, locations |-> FewLocations],
     [offers |-> FewOffers, locations |-> <<>>],
     [offers |-> ManyOffers, locations |-> ManyLocations]}

\* The ledger and the wallets that go with captured points.
LedgerOf(locs) ==
    [i \in 1..Len(locs) |->
        [user_id |-> locs[i].user_id, vehicle_type |-> locs[i].vehicle_type,
         points |-> Reward]]

WalletsOf(locs) ==
    IF locs = <<>> THEN EmptyTable
    ELSE Put(EmptyTable, Hunter,
             [NewWallet(Hunter) EXCEPT !.balance_moto = Reward * Len(locs),
                                       !.lifetime_points = Reward * Len(locs)])

SearchInit ==
    /\ \E st \in SearchStores :
          /\ offers = st.offers
          /\ locations = st.locations
    /\ transactions = LedgerOf(locations)
    /\ wallets = WalletsOf(locations)
    /\ bucket = [n \in {} |-> ""]
    /\ pc = [p \in Requests |-> "new"]
    /\ req = [p \in Requests |-> NoReq]
    /\ photoUrl = [p \in Requests |-> <<>>]
    /\ tx = [p \in Requests |-> NoTx]
    /\ wallet = [p \in Requests |-> ZeroWallet]
    /\ resp = NoResp
    /\ wallets0 = wallets
    /\ saved = {}
    /\ overlapped = FALSE
    /\ guardFailed = FALSE
    /\ committed = [p \in Requests |-> FALSE]

SearchNext == \E p \in Requests : NearbySearch(p)

SearchSpec == SearchInit /\ [][SearchNext]_vars

\* ---------------------------------------------- redemption on a given wallet

\* The hunter's wallet in each status, each balance below the goal or at it.
RedeemWallets ==
    {Put(EmptyTable, Hunter,
         [NewWallet(Hunter) EXCEPT !.status = st, !.balance_moto = m, !.balance_car = c,
                                   !.lifetime_points = m + c]) :
        st \in {"active", "pending", "frozen"},
        m \in {0, DefaultGoal}, c \in {0, DefaultGoal}}

RedeemInit ==
    /\ wallets \in RedeemWallets
    /\ locations = <<>>
    /\ transactions = <<>>
    /\ bucket = [n \in {} |-> ""]
    /\ offers = InitialOffers
    /\ pc = [p \in Requests |-> "new"]
    /\ req = [p \in Requests |-> NoReq]
    /\ photoUrl = [p \in Requests |-> <<>>]
    /\ tx = [p \in Requests |-> NoTx]
    /\ wallet = [p \in Requests |-> ZeroWallet]
    /\ resp = NoResp
    /\ wallets0 = wallets
    /\ saved = {}
    /\ overlapped = FALSE
    /\ guardFailed = FALSE
    /\ committed = [p \in Requests |-> FALSE]

RedeemNext ==
    \/ \E p \in Requests : RequestRedeem(p)
    \/ \E p \in Requests : SaveWallet(p)

RedeemSpec == RedeemInit /\ [][RedeemNext]_vars

\* ------------------------------------------------------------------ claims

Finished == \A p \in Requests : ~InFlight(p)

Field(table, u, f) == IF u \in DOMAIN table THEN table[u][f] ELSE 0

\* The ledger entries of user u for the vehicle types in vts.
Earnings(u, vts) ==
    Cardinality({i \in 1..Len(transactions) :
        transactions[i].user_id = u /\ transactions[i].vehicle_type \in vts})

\* The wallet of u holds what it held at the start plus the reward of every
\* committed submission of u, per vehicle category.
Credited(u) ==
    /\ (Earnings(u, {"moto", "car"}) > 0 => u \in DOMAIN wallets)
    /\ u \in DOMAIN wallets =>
          /\ wallets[u].balance_moto =
                Field(wallets0, u, "balance_moto") + Reward * Earnings(u, {"moto"})
          /\ wallets[u].balance_car =
                Field(wallets0, u, "balance_car") + Reward * Earnings(u, {"car"})
          /\ wallets[u].lifetime_points =
                Field(wallets0, u, "lifetime_points") + Reward * Earnings(u, {"moto", "car"})

\* Row i of locations and row i of transactions are those of one submission.
Paired(i) ==
    /\ transactions[i].user_id = locations[i].user_id
    /\ transactions[i].vehicle_type = locations[i].vehicle_type
    /\ transactions[i].points = Reward

TablesAgree ==
    /\ Len(locations) = Len(transactions)
    /\ \A i \in 1..Len(locations) : Paired(i)

\* A step either leaves the number of points and of ledger entries alone, and
\* then no step of a submission has touched a wallet, or it is the successful
\* COMMIT of one submission, which adds one point, one ledger entry of 10 points
\* and 10 lifetime points to the submitter's wallet.
AllOrNothingStep ==
    \/ /\ Len(locations') = Len(locations)
       /\ Len(transactions') = Len(transactions)
       /\ \A p \in Requests :
             (req[p].kind = "submit" /\ pc'[p] # pc[p]) => wallets' = wallets
    \/ \E p \in Requests :
          /\ pc[p] = "commit" /\ committed'[p]
          /\ Len(locations') = Len(locations) + 1
          /\ Len(transactions') = Len(transactions) + 1
          /\ locations'[Len(locations')].user_id = req[p].user_id
          /\ transactions'[Len(transactions')].points = Reward
          /\ Field(wallets', req[p].user_id, "lifetime_points") =
                Field(wallets, req[p].user_id, "lifetime_points") + Reward

\* C1: hunt submission is all-or-nothing in the store.  In every state the
\* points and the ledger entries pair up one to one (no point without its
\* entry of 10 points, no entry without its point), and every step either adds
\* nothing of a submission to the three tables or is a successful COMMIT adding
\* exactly one point, one ledger entry and one +10 wallet increment; a
\* submission that failed at the location insert, the geometry update, the
\* ledger insert, the wallet upsert or the COMMIT has added none.
AllOrNothing == []TablesAgree /\ [][AllOrNothingStep]_vars

\* One submission has committed and another has just been rolled back at its
\* wallet upsert.
AllOrNothingWitness ==
    /\ resp.op = "submit" /\ resp.code = 500 /\ resp.error = "Error updating wallet"
    /\ Len(locations) = 1 /\ Len(transactions) = 1

\* C2: no increment is lost under concurrent submissions of one user.  As long
\* as no redemption has rewritten the user's wallet row, the stored balances are
\* the initial ones plus 10 per committed moto (car) submission and the lifetime
\* points the initial ones plus 10 per committed submission, whether the row
\* existed before or two submissions raced to create it.
NoLostIncrement == \A u \in UserIDs : u \notin saved => Credited(u)

\* Two submissions of the hunter, one moto and one car, were in flight together
\* with no wallet row; both have committed.
NoLostIncrementWitness ==
    /\ overlapped /\ Hunter \notin DOMAIN wallets0 /\ Hunter \in DOMAIN wallets
    /\ Earnings(Hunter, {"moto"}) = 1 /\ Earnings(Hunter, {"car"}) = 1
    /\ wallets[Hunter].lifetime_points = 2 * Reward

\* C3 (as claimed): once every request has finished, the balances of every
\* wallet are the initial ones plus 10 per committed submission of the matching
\* kind, redemption requests having changed nothing but the status.
RedeemKeepsBalances == Finished => \A u \in UserIDs : Credited(u)

\* C4 (as claimed): a hunt submission answers with success only if its
\* transaction has committed.
SuccessMeansCommitted ==
    [][(resp'.op = "submit" /\ resp'.code = 200 /\ resp' # resp) => committed[resp'.to]]_vars

Other(vehicleType) == IF vehicleType = "car" THEN "balance_moto" ELSE "balance_car"
Own(vehicleType) == IF vehicleType = "car" THEN "balance_car" ELSE "balance_moto"

\* What the successful COMMIT of request p does to the wallets.
CommitFrame(p) ==
    LET u == req[p].user_id
        c == req[p].vehicle_type
    IN  /\ DOMAIN wallets' = DOMAIN wallets \cup {u}
        /\ \A v \in DOMAIN wallets \ {u} : wallets'[v] = wallets[v]
        /\ wallets'[u][Own(c)] = Field(wallets, u, Own(c)) + Reward
        /\ wallets'[u][Other(c)] = Field(wallets, u, Other(c))
        /\ wallets'[u].lifetime_points = Field(wallets, u, "lifetime_points") + Reward
        /\ u \in DOMAIN wallets =>
              /\ wallets'[u].goal = wallets[u].goal
              /\ wallets'[u].status = wallets[u].status
              /\ wallets'[u].level_name = wallets[u].level_name

\* C5: a committed submission with vehicle category c in {moto, car} adds 10 to
\* the submitter's balance of c and to the lifetime points (creating the row with
\* balance of c = 10, the other balance 0 and lifetime points 10 when there is
\* none) and leaves the other balance, the goal, the status and the level of an
\* existing wallet, and every other user's wallet, as they were.
CommitChangesOnlyItsBalance ==
    [][\A p \in Requests :
          (pc[p] = "commit" /\ committed'[p] /\ req[p].vehicle_type \in {"moto", "car"})
             => CommitFrame(p)]_vars

\* A car submission has just committed onto the hunter's wallet of the start.
CommitChangesOnlyItsBalanceWitness ==
    /\ \E p \in Requests : pc[p] = "reread" /\ committed[p] /\ req[p].user_id = Hunter
    /\ Hunter \in DOMAIN wallets0
    /\ wallets[Hunter].balance_car = Reward
    /\ wallets[Hunter].balance_moto = wallets0[Hunter].balance_moto

\* Two places of one category no more than 20 m apart.
Near(cat1, lat1, lng1, cat2, lat2, lng2) ==
    /\ cat1 = cat2
    /\ (lat1 - lat2) * (lat1 - lat2) + (lng1 - lng2) * (lng1 - lng2)
          <= ExclusionRadius * ExclusionRadius

NearRows(i, j) ==
    Near(locations[i].category, locations[i].latitude, locations[i].longitude,
         locations[j].category, locations[j].latitude, locations[j].longitude)

NearPair == \E i, j \in 1..Len(locations) : i < j /\ NearRows(i, j)

\* C6 (as claimed): when no two submissions were ever in flight together, the
\* store holds no two points of one category within 20 m of each other.
SequentialNoDuplicates == ~overlapped => ~NearPair

\* C7: the Duplicate Guard is a check outside the transaction, not a
\* constraint: two points of one category within 20 m of each other can both
\* be committed, each with its reward, and when every duplicate query was
\* answered by the store this happens only to submissions that were in flight
\* together.
DuplicatesOnlyByRace == (NearPair /\ ~guardFailed) => overlapped

\* Two same-category points within 20 m are stored, both rewarded, and no
\* duplicate query has failed.
DuplicatesOnlyByRaceWitness ==
    /\ NearPair /\ ~guardFailed /\ overlapped
    /\ Len(transactions) = 2
    /\ \A i \in 1..2 : transactions[i].points = Reward

\* The stored point i makes a submission of form f a duplicate.
Duplicates(i, f) ==
    Near(locations[i].category, locations[i].latitude, locations[i].longitude,
         f.category, ParseFloat(f.latitude), ParseFloat(f.longitude))

\* The answer of the guard to form f when the store answers its query.
GuardAnswer(f) ==
    Scanned(TRUE, DupCount(f.category, ParseFloat(f.longitude), ParseFloat(f.latitude))) > 0

\* C8: for every candidate submission and every content of the store, the
\* Duplicate Guard, when the store answers its query, says "duplicate" exactly
\* when some stored point has the same category and lies within 20 m of the
\* candidate, whatever that point's status, shadow flag, owner and vehicle
\* category.
GuardIsCategoryAndDistance ==
    \A f \in HuntForms :
        GuardAnswer(f) <=> \E i \in 1..Len(locations) : Duplicates(i, f)

\* The guard has just answered Conflict to a submission because of a stored
\* point of another owner, another vehicle category and the other shadow flag,
\* whose status a restart has set to approved.
GuardIsCategoryAndDistanceWitness ==
    /\ resp.op = "submit" /\ resp.code = 409
    /\ \E i \in 1..Len(locations) :
          /\ Duplicates(i, resp.form)
          /\ locations[i].user_id # resp.form.user_id
          /\ locations[i].vehicle_type # resp.form.vehicle_type
          /\ locations[i].is_shadow # (resp.form.is_shadow = "true")
          /\ locations[i].status = "approved"

Rejections == {403, 400, 409}

\* Everything stored comes from a submission that passed the admission checks.
OnlyAdmittedStored ==
    /\ \A i \in 1..Len(locations) :
          /\ locations[i].user_id \in authorizedUIDs
          /\ locations[i].category \in allowedCategories
    /\ \A i \in 1..Len(transactions) : transactions[i].user_id \in authorizedUIDs
    /\ \A u \in DOMAIN wallets : u \in authorizedUIDs \/ wallets[u].lifetime_points = 0
    /\ \A n \in DOMAIN bucket : n[2] \in authorizedUIDs

\* A step that answers a submission with 403, 400 or 409.
RejectionStep ==
    resp'.op = "submit" /\ resp'.code \in Rejections /\ resp' # resp

\* C9: a submission answered Forbidden, InvalidCategory or Conflict has no side
\* effect: it is answered before the media step and before the transaction,
\* the answering step changes no table and no bucket object, and nothing in the
\* store or the bucket comes from a user outside the allow-list or a category
\* outside the allowed ones.
RejectedLeavesNoTrace ==
    /\ []OnlyAdmittedStored
    /\ [][RejectionStep =>
             /\ UNCHANGED store
             /\ pc[resp'.to] \in {"new", "dup"}
             /\ photoUrl[resp'.to] = <<>> /\ ~tx[resp'.to].open]_vars

\* A submission with a photo has just been answered Forbidden while the store
\* holds a point and the bucket is as it was.
RejectedLeavesNoTraceWitness ==
    /\ resp.op = "submit" /\ resp.code = 403 /\ resp.form.user_id = Guest
    /\ resp.form.photo
    /\ Len(locations) = 1

\* C10 (as claimed): a stored point has a non-empty photo reference only if the
\* whole photo was uploaded to the object it names.
PhotoOnlyWhenUploaded ==
    \A i \in 1..Len(locations) :
        locations[i].photo_url # <<>> =>
            \E n \in DOMAIN bucket :
                URL(n) = locations[i].photo_url /\ bucket[n] = "whole"

\* C11 (as claimed): ledger and wallet agree per category.  In every state, for
\* every user, what the user's ledger entries of a vehicle category sum to is
\* what the wallet's balance of that category has grown by since the start, and
\* what all the user's entries sum to is what lifetime_points has grown by.
LedgerMatchesWallet == \A u \in UserIDs : Credited(u)

\* C12 (as claimed): the stored lifetime_points of a user never goes from a
\* value to a smaller one.
LifetimeNeverDecreases ==
    [][\A u \in DOMAIN wallets :
          u \in DOMAIN wallets' /\ wallets'[u].lifetime_points >= wallets[u].lifetime_points]_vars

\* What request p asked, seen from the step in which it arrives.
Asked(p) == IF pc'[p] = "done" THEN resp'.form ELSE req'[p]

\* The first step of a redemption request of a user with a wallet.
RedeemDecision(p) ==
    LET u == Asked(p).user_id
        c == Asked(p).vehicle_type
        enough == wallets[u][Own(c)] >= wallets[u].goal
    IN  /\ wallets' = wallets
        /\ pc'[p] \in {"save", "done"}
        /\ pc'[p] = "save" => enough
        /\ pc'[p] = "done" =>
              /\ resp'.op = "redeem" /\ resp'.code \in {400, 404}
              /\ resp'.code = 400 => ~enough
              /\ resp'.code = 404 => resp'.error = "Wallet no encontrada"

\* C13: for a user with a wallet and a vehicle category c in {moto, car}, a
\* redemption request whose read the store answers goes on to succeed exactly
\* when the wallet's balance of c is at least the goal (equality included),
\* whatever the other balance; otherwise it is answered 400 (insufficient
\* balance) and the wallets are as they were.  Only a request that passed this
\* test gets the success response.
RedeemIffBalanceReachesGoal ==
    /\ [][\A p \in Requests :
             (/\ pc[p] = "new" /\ pc'[p] # "new"
              /\ Asked(p).kind = "redeem"
              /\ Asked(p).user_id \in DOMAIN wallets
              /\ Asked(p).vehicle_type \in {"moto", "car"}) => RedeemDecision(p)]_vars
    /\ [][(resp'.op = "redeem" /\ resp'.code = 200 /\ resp' # resp)
             => pc[resp'.to] = "save"]_vars
    /\ [](\A p \in Requests :
             pc[p] = "save" => wallet[p][Own(req[p].vehicle_type)] >= wallet[p].goal)

\* A moto redemption has just succeeded on a wallet whose moto balance equals the
\* goal and whose car balance is below it.
RedeemIffBalanceReachesGoalWitness ==
    /\ resp.op = "redeem" /\ resp.code = 200
    /\ resp.form.user_id = Hunter /\ resp.form.vehicle_type = "moto"
    /\ wallets[Hunter].balance_moto = wallets[Hunter].goal
    /\ wallets[Hunter].balance_car < wallets[Hunter].goal
    /\ wallets[Hunter].status = "pending"

\* C14 (as claimed): after a redemption request answered with success the
\* wallet's status is pending.
RedeemedIsPending ==
    (resp.op = "redeem" /\ resp.code = 200)
        => wallets[resp.form.user_id].status = "pending"

\* ------------------------------------------------------- claims on the search

\* A search has just been answered with the list its query gave.
Answered == resp.op = "search" /\ resp.code = 200 /\ ~resp.null

\* The row of the store that a result row names.
Place(id) ==
    IF id[1] = "offers"
    THEN [lat |-> offers[id[2]].location[2], lng |-> offers[id[2]].location[1]]
    ELSE [lat |-> locations[id[2]].latitude, lng |-> locations[id[2]].longitude]

StoredIds ==
    {<<"offers", i>> : i \in 1..Len(offers)} \cup {<<"locations", i>> : i \in 1..Len(locations)}

\* The square of the distance, in meters, from the point asked for to row id.
Away(id, f) ==
    (Place(id).lat - ParseFloat(f.lat)) * (Place(id).lat - ParseFloat(f.lat))
    + (Place(id).lng - ParseFloat(f.lng)) * (Place(id).lng - ParseFloat(f.lng))

\* The radius a search works with: the one asked for, 5000 m when it is zero
\* or absent.
Effective(f) == IF ParseFloat(f.radius) > 0 THEN ParseFloat(f.radius) ELSE DefaultRadius

InRadius(f, r) == {id \in StoredIds : Away(id, f) <= r * r}

Returned == {resp.rows[i].id : i \in 1..Len(resp.rows)}

Ascending ==
    \A i \in 1..Len(resp.rows) - 1 :
        Away(resp.rows[i].id, resp.form) <= Away(resp.rows[i + 1].id, resp.form)

\* C15: a search returns the first min(50, n) rows of the distance-ascending
\* order of the n offers and captured points within the effective radius,
\* whatever the captured points' status and shadow flag: each such row at most
\* once, with its own coordinates, in non-decreasing distance, none omitted
\* that is strictly nearer than a returned one; two empty tables give the empty
\* list.
NearestFirst ==
    Answered =>
        LET matching == InRadius(resp.form, Effective(resp.form))
            n == Cardinality(matching)
        IN  /\ Len(resp.rows) = (IF n < Limit THEN n ELSE Limit)
            /\ Cardinality(Returned) = Len(resp.rows)
            /\ Returned \subseteq matching
            /\ Ascending
            /\ \A id \in matching \ Returned : \A i \in 1..Len(resp.rows) :
                  Away(resp.rows[i].id, resp.form) <= Away(id, resp.form)
            /\ \A i \in 1..Len(resp.rows) :
                  /\ resp.rows[i].latitude = Place(resp.rows[i].id).lat
                  /\ resp.rows[i].longitude = Place(resp.rows[i].id).lng

\* More than 50 rows of both tables lie within the radius and the search has
\* returned 50 of them, offers and captured points.
NearestFirstWitness ==
    /\ Answered
    /\ Cardinality(InRadius(resp.form, Effective(resp.form))) > Limit
    /\ Len(resp.rows) = Limit
    /\ \E i, j \in 1..Len(resp.rows) :
          resp.rows[i].id[1] = "offers" /\ resp.rows[j].id[1] = "locations"

\* C16 (as claimed): for every radius r >= 0 the caller supplies, every row
\* returned lies within r meters of the point asked for.
WithinSuppliedRadius ==
    (Answered /\ resp.form.radius # "") =>
        \A i \in 1..Len(resp.rows) :
            Away(resp.rows[i].id, resp.form)
                <= ParseFloat(resp.form.radius) * ParseFloat(resp.form.radius)

\* C16 (amended): for every radius r > 0 the caller supplies, every row
\* returned lies within r meters of the point asked for and the rows are in
\* non-decreasing distance; a radius of zero, like an absent one, stands for
\* 5000 m, within which every returned row then lies.
WithinEffectiveRadius ==
    Answered =>
        /\ \A i \in 1..Len(resp.rows) :
              Away(resp.rows[i].id, resp.form)
                  <= Effective(resp.form) * Effective(resp.form)
        /\ Ascending

\* A search with radius 20 has returned a row 20 m away and left out a row that
\* is farther.
WithinEffectiveRadiusWitness ==
    /\ Answered /\ resp.form.radius = "20"
    /\ \E i \in 1..Len(resp.rows) : Away(resp.rows[i].id, resp.form) = 20 * 20
    /\ \E id \in StoredIds \ Returned : Away(id, resp.form) > 20 * 20

Stations == {"station_moto", "station_car"}

\* The status result row i must show.
Shown(i) ==
    LET id == resp.rows[i].id
    IN  IF id[1] = "offers" THEN offers[id[2]].status
        ELSE IF locations[id[2]].category \in Stations THEN "shadow"
        ELSE IF locations[id[2]].status \in {Null, ""} THEN "approved"
        ELSE locations[id[2]].status

\* C17: the display status of a result is derived by first match: a captured
\* point of category station_moto or station_car shows 'shadow' whatever its
\* stored status; otherwise one whose stored status is null or empty shows
\* 'approved'; otherwise it shows its stored status; an offer shows its stored
\* status.  The search leaves every stored status as it was.
DisplayStatusByFirstMatch ==
    /\ [](Answered => \A i \in 1..Len(resp.rows) : resp.rows[i].status = Shown(i))
    /\ [][(resp'.op = "search" /\ resp' # resp) => UNCHANGED store]_vars

\* One answer shows a station with stored status rejected and one with no stored
\* status as shadow, a point with no status and one with the empty status as
\* approved, and a pending point as pending.
DisplayStatusByFirstMatchWitness ==
    /\ Answered
    /\ \A st \in {"rejected", Null} : \E i \in 1..Len(resp.rows) :
          /\ resp.rows[i].id[1] = "locations"
          /\ locations[resp.rows[i].id[2]].category \in Stations
          /\ locations[resp.rows[i].id[2]].status = st
          /\ resp.rows[i].status = "shadow"
    /\ \A st \in {Null, ""} : \E i \in 1..Len(resp.rows) :
          /\ resp.rows[i].id[1] = "locations"
          /\ locations[resp.rows[i].id[2]].status = st
          /\ resp.rows[i].status = "approved"
    /\ \E i \in 1..Len(resp.rows) :
          resp.rows[i].id[1] = "locations" /\ resp.rows[i].status = "pending"

\* C18 (as claimed): a search whose query the store failed is never answered
\* with success: its response carries an error.
StoreFailureSurfaced ==
    (resp.op = "search" /\ resp.null) => (resp.code # 200 /\ resp.error # "")

Incomplete(f) == f.lat = "" \/ f.lng = ""

\* C19: a search without latitude or without longitude (or both) is answered
\* 400 "Faltan lat/lng" whatever its radius, with no list and with no outcome
\* of a query, successful or failed; no other search is answered so.
MissingCoordinatesRejected ==
    resp.op = "search" =>
        /\ Incomplete(resp.form) =>
              /\ resp.code = 400 /\ resp.error = "Faltan lat/lng"
              /\ resp.rows = <<>> /\ ~resp.null
        /\ resp.code = 400 => Incomplete(resp.form)

\* A search with a longitude and a radius but no latitude has just been rejected
\* while the store holds rows at the place it would have looked at.
MissingCoordinatesRejectedWitness ==
    /\ resp.op = "search" /\ resp.code = 400
    /\ resp.form.lat = "" /\ resp.form.lng = "0" /\ resp.form.radius = "20"
    /\ Len(locations) > 0 /\ Len(offers) > 0

\* C20 (as claimed): a wallet row exists for every user who has had a wallet
\* read: right after a wallet read is answered, the row of its user is stored.
WalletReadLeavesRow ==
    (resp.op = "wallet" /\ resp.code = 200) => resp.form.user_id \in DOMAIN wallets

\* C21 (as claimed): the wallet a successful hunt submission returns includes
\* its reward: the returned balance of the submission's vehicle category is at
\* least 10 above what was stored at the start (no stored balance ever being
\* below that), so 10 for a fresh wallet.
ReturnedWalletHasReward ==
    (resp.op = "submit" /\ resp.code = 200) =>
        resp.wallet[Own(resp.form.vehicle_type)]
            >= Field(wallets0, resp.form.user_id, Own(resp.form.vehicle_type)) + Reward

BeyondAdmission == {"dup", "media", "insert", "geom", "ledger", "upsert", "commit"}

FailedGuardStops ==
    [][\A p \in Requests :
          (pc[p] = "dup" /\ ~guardFailed /\ guardFailed') => pc'[p] # "media"]_vars

\* C24: every stored captured point has its geometry, set from its own
\* longitude and latitude (no committed row is without it), and is found at its
\* coordinates by the duplicate query and by the nearby query.
GeometryFromCoordinates ==
    \A i \in 1..Len(locations) :
        /\ locations[i].geom = <<locations[i].longitude, locations[i].latitude>>
        /\ DupCount(locations[i].category, locations[i].longitude, locations[i].latitude) > 0
        /\ \E r \in UnionAll(Point(locations[i].longitude, locations[i].latitude),
                             ExclusionRadius) : r.id = <<"locations", i>>

\* A point away from the origin is stored with its geometry and another
\* submission has just been rolled back at its geometry update.
GeometryFromCoordinatesWitness ==
    /\ resp.op = "submit" /\ resp.code = 500 /\ resp.error = "Error updating geography"
    /\ Len(locations) = 1
    /\ locations[1].latitude > 0 /\ locations[1].geom # <<>>

\* C25 (as claimed): no redemption request moves a frozen wallet out of frozen.
FrozenStaysFrozen ==
    \A u \in DOMAIN wallets :
        wallets0[u].status = "frozen" => wallets[u].status = "frozen"

\* C26 (as claimed): no step changes the stored status or the coordinates of an
\* existing captured point.
PointsNeverChange ==
    [][\A i \in 1..Len(locations) :
          /\ locations'[i].status = locations[i].status
          /\ locations'[i].latitude = locations[i].latitude
          /\ locations'[i].longitude = locations[i].longitude]_vars

\* C27 (as claimed): once a wallet read of a user who had no wallet has been
\* answered and nothing is in flight, the user has a wallet row, and it holds
\* the rewards of the user's committed submissions.
LazyCreationLeavesRow ==
    (Finished /\ resp.op = "wallet" /\ resp.code = 200
              /\ resp.form.user_id \notin DOMAIN wallets0) =>
        /\ resp.form.user_id \in DOMAIN wallets
        /\ Credited(resp.form.user_id)

\* The number a coordinate string stands for; 0 when it is missing or no number.
Numeric(str) ==
    CASE str = "20" -> 20
      [] str = "41" -> 41
      [] OTHER -> 0

\* C28: hunt submission does not validate coordinates.  A latitude or longitude
\* that is missing or not a number is taken as 0: the only 400 a submission gets
\* is for its category, and the commit of a submission stores its point at the
\* numbers its coordinate strings stand for (0 for such a string), with its
\* geometry there, and its ledger entry of 10 points.
CoordinatesNotValidated ==
    /\ []((resp.op = "submit" /\ resp.code = 400)
             => resp.form.category \notin allowedCategories)
    /\ [][\A p \in Requests :
             (pc[p] = "commit" /\ committed'[p]) =>
                 LET row == locations'[Len(locations')]
                 IN  /\ row.latitude = Numeric(req[p].latitude)
                     /\ row.longitude = Numeric(req[p].longitude)
                     /\ row.geom = <<row.longitude, row.latitude>>
                     /\ transactions'[Len(transactions')].points = Reward
                     /\ transactions'[Len(transactions')].user_id = req[p].user_id]_vars

\* The forms without latitude and with a latitude that is no number have both
\* committed: two points at 0, each with its ledger entry.
CoordinatesNotValidatedWitness ==
    /\ Len(locations) = 2 /\ Len(transactions) = 2
    /\ \A i \in 1..2 : locations[i].latitude = 0 /\ locations[i].geom = <<0, 0>>
    /\ \E i, j \in 1..2 :
          locations[i].category = "food" /\ locations[j].category = "station_moto"

====
